---- MODULE Spec2Model ----
(***************************************************************************)
(* Linear GKR / sum-check engine of grandchildrice/gkr.                    *)
(*                                                                         *)
(*   Spec     one proof session: LinearGKRProver::prove, the proof handed  *)
(*            to the caller, LinearGKRVerifier::verify.                    *)
(*   SpecMLE  the multilinear-extension operations of ml_extension.rs      *)
(*            applied to bounded inputs.                                   *)
(*   SpecHonest, SpecDims, SpecPhase                                       *)
(*            the proof session on the inputs of the test, on inputs of    *)
(*            any variable count, and on sparse wiring functions.          *)
(*   SpecEngine                                                            *)
(*            sumcheck::slow_verify and sumcheck::verify on bounded        *)
(*            polynomials of at least one variable.                        *)
(*   SpecEngineAll                                                         *)
(*            the same on polynomials of no variable as well.              *)
(***************************************************************************)
EXTENDS Integers, Sequences, FiniteSets

\* ------------------------------------------------------------------ bounds

\* ScalarField is modelled as the integers modulo FieldModulus.
FieldModulus == 47
\* l = g.len() ranges over 0..MaxL in a proof session.
MaxL == 1
\* get_r() draws from 0..MaxChal.
MaxChal == 1
\* verify is called with the prover's claimed sum minus 0..MaxDelta.
MaxDelta == 1
\* SpecHonest: l = g.len() ranges over 0..MaxRounds.
MaxRounds == 2
\* SpecDims: the variable counts of f1, f2, f3 are off by up to MaxSkew.
MaxSkew == 1
\* SpecMLE: a sparse MLE has at most MaxVars variables,
MaxVars == 2
\* at most MaxSupport stored entries,
MaxSupport == 2
\* stored values in 0..MaxVal,
MaxVal == 2
\* points / fixed prefixes with coordinates in 0..MaxCoord,
MaxCoord == 2
\* and a dense table scaled by MaxScalar or by -1.
MaxScalar == 2
\* SpecEngine: a polynomial has 1..MaxEngineVars variables,
MaxEngineVars == 2
\* terms of total degree at most MaxDegree,
MaxDegree == 2
\* at most MaxTerms of them,
MaxTerms == 2
\* and get_r() draws MaxEngineChal or -1.
MaxEngineChal == 2

\* ------------------------------------------------------ field and integers

Field == 0 .. (FieldModulus - 1)

FAdd(a, b) == (a + b) % FieldModulus

FMul(a, b) == (a * b) % FieldModulus

FSub(a, b) == (a + FieldModulus - b) % FieldModulus

\* F::is_zero
is_zero(x) == x % FieldModulus = 0

RECURSIVE Pow2(_)
Pow2(n) == IF n <= 0 THEN 1 ELSE 2 * Pow2(n - 1)

\* (index >> pos) & 1
BitAt(index, pos) == (index \div Pow2(pos)) % 2

\* sum in the field of F[i] over the finite set S of integers
RECURSIVE FSum(_, _)
FSum(S, F) ==
    IF S = {} THEN 0
    ELSE LET i == CHOOSE j \in S : \A k \in S : j <= k
         IN  FAdd(F[i], FSum(S \ {i}, F))

\* ---------------------------------------------------------- ml_extension.rs

\* DenseMLE { num_vars, evaluations }: evaluations is a function on
\* 0 .. len-1 (the Vec's indices). SparseMLE { num_vars, evaluations }:
\* evaluations is a function on the stored indices (the HashMap's keys).

\* DenseMLE::evaluate, the index built by the loop over the point: bit i of
\* the point sets bit num_vars-1-i of the index.
RECURSIVE EvalIndex(_, _, _)
EvalIndex(num_vars, point, i) ==
    IF i > Len(point) THEN 0
    ELSE (IF ~is_zero(point[i]) THEN Pow2(num_vars - 1 - (i - 1)) ELSE 0)
         + EvalIndex(num_vars, point, i + 1)

\* DenseMLE::evaluate panics unless point.len() == num_vars (and the index is
\* inside the table).
EvaluateOk(d, point) ==
    /\ Len(point) = d.num_vars
    /\ EvalIndex(d.num_vars, point, 1) \in DOMAIN d.evaluations

Evaluate(d, point) == d.evaluations[EvalIndex(d.num_vars, point, 1)]

\* DenseMLE::scale: every entry of the table is multiplied by scalar, in
\* place.
scale(d, scalar) ==
    [d EXCEPT !.evaluations = [i \in DOMAIN d.evaluations |-> FMul(d.evaluations[i], scalar)]]

\* SparseMLE::fix_variables, the test `valid` of one stored index.
PrefixMatches(num_vars, index, fixed) ==
    \A i \in 0 .. (Len(fixed) - 1) :
        BitAt(index, num_vars - 1 - i) = (IF is_zero(fixed[i + 1]) THEN 0 ELSE 1)

\* a faulty new_index loop: the bits are read LSB-first (bit i of the index
\* for variable i)
RECURSIVE NewIndexLsbFirst(_, _, _, _)
NewIndexLsbFirst(num_vars, index, i, acc) ==
    IF i >= num_vars THEN acc
    ELSE NewIndexLsbFirst(num_vars, index, i + 1, 2 * acc + BitAt(index, i))

\* SparseMLE::fix_variables, the loop building new_index from bits
\* fixed_count .. num_vars-1 of the index.
RECURSIVE NewIndex(_, _, _, _)
NewIndex(num_vars, index, i, acc) ==
    IF i >= num_vars THEN acc
    ELSE NewIndex(num_vars, index, i + 1, 2 * acc + BitAt(index, num_vars - 1 - i))

\* SparseMLE::fix_variables panics unless fixed.len() <= num_vars.
FixVariablesOk(f, fixed) == Len(fixed) <= f.num_vars

\* SparseMLE::fix_variables: a new SparseMLE over the remaining variables.
fix_variables(f, fixed) ==
    LET kept == {idx \in DOMAIN f.evaluations : PrefixMatches(f.num_vars, idx, fixed)}
        newOf(idx) == NewIndex(f.num_vars, idx, Len(fixed), 0)
    IN  [num_vars    |-> f.num_vars - Len(fixed),
         evaluations |-> [j \in {newOf(idx) : idx \in kept} |->
                            f.evaluations[CHOOSE idx \in kept : newOf(idx) = j]]]

\* a faulty to_dense: the copying loop stops one index short (0..size-1)
to_dense_short_loop(f) ==
    [num_vars    |-> f.num_vars,
     evaluations |-> [i \in 0 .. (Pow2(f.num_vars) - 1) |->
                        IF i \in DOMAIN f.evaluations /\ i < Pow2(f.num_vars) - 1
                        THEN f.evaluations[i] ELSE 0]]

\* SparseMLE::to_dense_multilinear_extension
to_dense_multilinear_extension(f) ==
    [num_vars    |-> f.num_vars,
     evaluations |-> [i \in 0 .. (Pow2(f.num_vars) - 1) |->
                        IF i \in DOMAIN f.evaluations THEN f.evaluations[i] ELSE 0]]

\* ------------------------------------------------------------- sumcheck.rs

\* sumcheck::get_r: a fresh draw from rand::thread_rng() on every call; the
\* model draws it from Challenges.
Challenges == 0 .. MaxChal

\* protocol::prover_init
prover_init(num_vars, claimed_sum) == [num_vars |-> num_vars, current_sum |-> claimed_sum]

\* protocol::prove_round: the round message, vec![F::zero(), F::one()];
\* the state is left as it is.
prove_round(state) == <<0, 1>>

\* protocol::apply_challenge: the prover state after the challenge.
apply_challenge(state, r) == state

\* protocol::verifier_init
verifier_init(num_vars, claimed_sum) == [num_vars |-> num_vars, current_sum |-> claimed_sum]

\* protocol::verify_round: TRUE for Ok(()), FALSE for Err; the state is left
\* as it is.
verify_round(state, msg) == TRUE

\* protocol::apply_challenge_verifier: the verifier state after the challenge.
apply_challenge_verifier(state, r) == state

\* a faulty finalize: the comparison is inverted
finalize_inverted(state, claimed_sum) ==
    IF state.current_sum # claimed_sum
    THEN [ok |-> TRUE, point |-> [i \in 1 .. state.num_vars |-> 1],
          expected_value |-> claimed_sum]
    ELSE [ok |-> FALSE, point |-> <<>>, expected_value |-> 0]

\* protocol::finalize: Ok(Subclaim) or Err("Final sum-check failed").
finalize(state, claimed_sum) ==
    IF state.current_sum = claimed_sum
    THEN [ok |-> TRUE, point |-> [i \in 1 .. state.num_vars |-> 1],
          expected_value |-> claimed_sum]
    ELSE [ok |-> FALSE, point |-> <<>>, expected_value |-> 0]

\* --------------------------------------------------------------- prover.rs

\* initialize_phase_one: the entries of f1_fixed_g the loop does not skip.
NonZeroEntries(fx) == {idx \in DOMAIN fx.evaluations : ~is_zero(fx.evaluations[idx])}

\* initialize_phase_one: x_index = index & ((1 << l) - 1)
x_index(index, l) == index % Pow2(l)

\* initialize_phase_one: y_index = index >> l
y_index(index, l) == index \div Pow2(l)

\* initialize_phase_one returns without a panic: the assert_eq on f1.num_vars
\* (fix_variables' own assert follows from it) and the reads of
\* f3.evaluations[y_index].
InitPhaseOneOk(pf1, pf3, pg) ==
    /\ pf1.num_vars = 3 * Len(pg)
    /\ \A idx \in NonZeroEntries(fix_variables(pf1, pg)) :
          y_index(idx, Len(pg)) \in DOMAIN pf3.evaluations

\* initialize_phase_one: the pair (h_g, f1_fixed_g).
initialize_phase_one(pf1, pf3, pg) ==
    LET l  == Len(pg)
        fx == fix_variables(pf1, pg)
        term == [idx \in NonZeroEntries(fx) |->
                    FMul(fx.evaluations[idx], pf3.evaluations[y_index(idx, l)])]
    IN  [h_g |-> [num_vars    |-> l,
                  evaluations |-> [x \in 0 .. (Pow2(l) - 1) |->
                      FSum({idx \in NonZeroEntries(fx) : x_index(idx, l) = x}, term)]],
         f1_fixed_g |-> fx]

\* initialize_phase_two returns without a panic (fix_variables' assert).
InitPhaseTwoOk(fx, pu) == FixVariablesOk(fx, pu)

\* initialize_phase_two
initialize_phase_two(fx, pu) == to_dense_multilinear_extension(fix_variables(fx, pu))

\* compute_claimed_sum / compute_dense_sum read a.evaluations[i] and
\* b.evaluations[i] for every i < 1 << a.num_vars.
DotOk(a, b) ==
    \A i \in 0 .. (Pow2(a.num_vars) - 1) : i \in DOMAIN a.evaluations /\ i \in DOMAIN b.evaluations

\* compute_claimed_sum: sum over x of h_g(x) * f2(x)
compute_claimed_sum(h, pf2) ==
    FSum(0 .. (Pow2(h.num_vars) - 1),
         [i \in 0 .. (Pow2(h.num_vars) - 1) |-> FMul(h.evaluations[i], pf2.evaluations[i])])

\* compute_dense_sum: sum over y of f1(g,u,y) * f3(y)
compute_dense_sum(fgu, pf3) ==
    FSum(0 .. (Pow2(fgu.num_vars) - 1),
         [i \in 0 .. (Pow2(fgu.num_vars) - 1) |-> FMul(fgu.evaluations[i], pf3.evaluations[i])])

\* ------------------------------------------------------------------- state

VARIABLES
    f1, f2, f3, g,  \* the arguments of LinearGKRProver::prove
    prover,         \* the locals of LinearGKRProver::prove and its position
    proof,          \* the LinearGKRProof returned by prove
    verifier,       \* the arguments and locals of LinearGKRVerifier::verify
    mle,            \* SpecMLE: the MLE values under test
    engine          \* SpecEngine: the arguments and locals of sumcheck::verify

vars == <<f1, f2, f3, g, prover, proof, verifier, mle, engine>>

\* a local that is not assigned yet / an Option
None == <<>>

Some(x) == <<x>>

Get(o) == o[1]

\* ---------------------------------------------------------- session inputs

\* the Boolean points of {0,1}^n as sequences
BoolPoints(n) == [1 .. n -> {0, 1}]

\* a wiring predicate: value 1 on the indices of S, no other entry
Predicate(n, S) == [num_vars |-> n, evaluations |-> [i \in S |-> 1]]

\* f1 of tests/test_gkr.rs (1 on every point), and the predicate that holds
\* where the first variable is 1
F1Inputs(n) ==
    {Predicate(n, 0 .. (Pow2(n) - 1)),
     Predicate(n, {i \in 0 .. (Pow2(n) - 1) : n > 0 /\ BitAt(i, n - 1) = 1})}

\* the dense table a, a+1, ... (F2 = [2, 3] and F3 = [4, 5] of tests/test_gkr.rs)
Ramp(n, a) ==
    [num_vars |-> n, evaluations |-> [i \in 0 .. (Pow2(n) - 1) |-> (a + i) % FieldModulus]]

ProverIdle ==
    [pc |-> "init",
     h_g |-> None, f1_fixed_g |-> None, claimed_sum_phase1 |-> None,
     prover_state1 |-> None, phase1_msgs |-> <<>>, u |-> <<>>,
     f1_fixed_gu |-> None, f2_at_u |-> None, claimed_sum_phase2 |-> None,
     prover_state2 |-> None, phase2_msgs |-> <<>>, v |-> <<>>]

VerifierIdle ==
    [pc |-> "idle", f2_num_vars |-> 0, claimed_sum |-> 0, proof |-> None,
     verifier_state1 |-> None, u |-> <<>>, subclaim1 |-> None,
     verifier_state2 |-> None, v |-> <<>>, subclaim2 |-> None,
     result |-> None, verify_round_calls |-> 0, get_r_calls |-> 0]

EngineIdle ==
    [pc |-> "idle", g |-> [num_vars |-> 0, terms |-> <<>>], c_1 |-> 0,
     slow_result |-> None, r_vec |-> <<>>, gi |-> <<>>,
     expected_c |-> None, new_c |-> None, j |-> 0, failed |-> "", result |-> None]

MleIdle ==
    [pc |-> "idle", sparse |-> Predicate(0, {}), fixed |-> <<>>, reduced |-> None,
     dense |-> None, scalar |-> None, point |-> <<>>, value |-> None]

Init ==
    /\ \E l \in 0 .. MaxL :
          /\ f1 \in F1Inputs(3 * l)
          /\ f2 = Ramp(l, 2)
          /\ f3 = Ramp(l, 4)
          /\ g \in BoolPoints(l)
    /\ prover = ProverIdle
    /\ proof = None
    /\ verifier = VerifierIdle
    /\ mle = MleIdle
    /\ engine = EngineIdle

\* ----------------------------------------------- LinearGKRProver::prove

\* prove, up to the first loop: initialize_phase_one, compute_claimed_sum,
\* prover_init. A failed assertion or an index out of range is a panic.
ProveInit ==
    /\ prover.pc = "init"
    /\ IF InitPhaseOneOk(f1, f3, g) /\ DotOk(initialize_phase_one(f1, f3, g).h_g, f2)
       THEN LET one == initialize_phase_one(f1, f3, g)
                sum == compute_claimed_sum(one.h_g, f2)
            IN  prover' = [prover EXCEPT
                    !.pc = "phase1",
                    !.h_g = Some(one.h_g),
                    !.f1_fixed_g = Some(one.f1_fixed_g),
                    !.claimed_sum_phase1 = Some(sum),
                    !.prover_state1 = Some(prover_init(Len(g), sum))]
       ELSE prover' = [prover EXCEPT !.pc = "panic"]
    /\ UNCHANGED <<f1, f2, f3, g, proof, verifier, mle, engine>>

\* a faulty Phase 1 loop: the next message is produced without waiting for
\* the challenge of the round
ProvePhase1MsgNoWait ==
    /\ prover.pc = "phase1"
    /\ Len(prover.phase1_msgs) < Len(g)
    /\ prover' = [prover EXCEPT
           !.phase1_msgs = Append(@, prove_round(Get(prover.prover_state1)))]
    /\ UNCHANGED <<f1, f2, f3, g, proof, verifier, mle, engine>>

\* Phase 1 loop body, first half: prove_round and phase1_msgs.push.
ProvePhase1Msg ==
    /\ prover.pc = "phase1"
    /\ Len(prover.phase1_msgs) < Len(g)
    /\ prover' = [prover EXCEPT
           !.pc = "phase1_challenge",
           !.phase1_msgs = Append(@, prove_round(Get(prover.prover_state1)))]
    /\ UNCHANGED <<f1, f2, f3, g, proof, verifier, mle, engine>>

\* Phase 1 loop body, second half: get_r, u.push, apply_challenge.
ProvePhase1Challenge ==
    /\ prover.pc = "phase1_challenge"
    /\ \E r_i \in Challenges :
          prover' = [prover EXCEPT
              !.pc = "phase1",
              !.u = Append(@, r_i),
              !.prover_state1 = Some(apply_challenge(Get(@), r_i))]
    /\ UNCHANGED <<f1, f2, f3, g, proof, verifier, mle, engine>>

\* prove, between the loops: initialize_phase_two, f2.evaluate(&u),
\* compute_dense_sum, prover_init.
ProvePhase2Init ==
    /\ prover.pc = "phase1"
    /\ Len(prover.phase1_msgs) >= Len(g)
    /\ IF /\ InitPhaseTwoOk(Get(prover.f1_fixed_g), prover.u)
          /\ EvaluateOk(f2, prover.u)
          /\ DotOk(initialize_phase_two(Get(prover.f1_fixed_g), prover.u), f3)
       THEN LET fgu == initialize_phase_two(Get(prover.f1_fixed_g), prover.u)
                at  == Evaluate(f2, prover.u)
                sum == FMul(at, compute_dense_sum(fgu, f3))
            IN  prover' = [prover EXCEPT
                    !.pc = "phase2",
                    !.f1_fixed_gu = Some(fgu),
                    !.f2_at_u = Some(at),
                    !.claimed_sum_phase2 = Some(sum),
                    !.prover_state2 = Some(prover_init(Len(g), sum))]
       ELSE prover' = [prover EXCEPT !.pc = "panic"]
    /\ UNCHANGED <<f1, f2, f3, g, proof, verifier, mle, engine>>

\* a faulty Phase 2 loop: it runs once more than l times (0..=l)
ProvePhase2MsgExtraRound ==
    /\ prover.pc = "phase2"
    /\ Len(prover.phase2_msgs) <= Len(g)
    /\ prover' = [prover EXCEPT
           !.pc = "phase2_challenge",
           !.phase2_msgs = Append(@, prove_round(Get(prover.prover_state2)))]
    /\ UNCHANGED <<f1, f2, f3, g, proof, verifier, mle, engine>>

\* Phase 2 loop body, first half: prove_round and phase2_msgs.push.
ProvePhase2Msg ==
    /\ prover.pc = "phase2"
    /\ Len(prover.phase2_msgs) < Len(g)
    /\ prover' = [prover EXCEPT
           !.pc = "phase2_challenge",
           !.phase2_msgs = Append(@, prove_round(Get(prover.prover_state2)))]
    /\ UNCHANGED <<f1, f2, f3, g, proof, verifier, mle, engine>>

\* Phase 2 loop body, second half: get_r, v.push, apply_challenge.
ProvePhase2Challenge ==
    /\ prover.pc = "phase2_challenge"
    /\ \E r_j \in Challenges :
          prover' = [prover EXCEPT
              !.pc = "phase2",
              !.v = Append(@, r_j),
              !.prover_state2 = Some(apply_challenge(Get(@), r_j))]
    /\ UNCHANGED <<f1, f2, f3, g, proof, verifier, mle, engine>>

\* prove returns LinearGKRProof { phase1_msgs, phase2_msgs }.
ProveReturn ==
    /\ prover.pc = "phase2"
    /\ Len(prover.phase2_msgs) >= Len(g)
    /\ prover' = [prover EXCEPT !.pc = "done"]
    /\ proof' = Some([phase1_msgs |-> prover.phase1_msgs, phase2_msgs |-> prover.phase2_msgs])
    /\ UNCHANGED <<f1, f2, f3, g, verifier, mle, engine>>

\* ------------------------------------------ the proof handed to the verifier

\* a round message with its constant coefficient changed
Forge(msg) == [msg EXCEPT ![1] = FAdd(@, 1)]

\* LinearGKRProof has public fields: the caller may hand verify the proof of
\* prove, or one with a message changed, dropped or added.
ForgedProofs(pr) ==
    {[pr EXCEPT !.phase1_msgs[k] = Forge(@)] : k \in 1 .. Len(pr.phase1_msgs)}
    \cup {[pr EXCEPT !.phase2_msgs[k] = Forge(@)] : k \in 1 .. Len(pr.phase2_msgs)}
    \cup {[pr EXCEPT !.phase1_msgs = Append(@, <<0, 1>>)],
          [pr EXCEPT !.phase2_msgs = Append(@, <<0, 1>>)]}
    \cup {[pr EXCEPT !.phase1_msgs = SubSeq(@, 1, Len(@) - 1)] : k \in 1 .. Len(pr.phase1_msgs)}
    \cup {[pr EXCEPT !.phase2_msgs = SubSeq(@, 1, Len(@) - 1)] : k \in 1 .. Len(pr.phase2_msgs)}

\* ------------------------------------------- LinearGKRVerifier::verify

Err(e) == [ok |-> FALSE, err |-> e, u |-> <<>>, v |-> <<>>, expected_value |-> 0]

Ok(pu, pv, e) == [ok |-> TRUE, err |-> "", u |-> pu, v |-> pv, expected_value |-> e]

\* a faulty length check: only phase1_msgs is measured
LengthsOkPhase1Only(l, pr) == Len(pr.phase1_msgs) = l

\* verify's first statement: the proof is rejected unless both message lists
\* have length l.
LengthsOk(l, pr) == ~(Len(pr.phase1_msgs) # l \/ Len(pr.phase2_msgs) # l)

\* verify is called with f2_num_vars, a claimed sum and a proof; it returns
\* Err("Invalid proof length") or sets up Phase 1 (verifier_init, u = []).
VerifyCall ==
    /\ prover.pc = "done"
    /\ verifier.pc = "idle"
    /\ \E l \in 0 .. MaxL, d \in 0 .. MaxDelta,
          pr \in {Get(proof)} \cup ForgedProofs(Get(proof)) :
          LET claimed == FSub(Get(prover.claimed_sum_phase1), d)
              called  == [verifier EXCEPT
                             !.f2_num_vars = l, !.claimed_sum = claimed, !.proof = Some(pr)]
          IN  IF LengthsOk(l, pr)
              THEN verifier' = [called EXCEPT
                       !.pc = "phase1",
                       !.verifier_state1 = Some(verifier_init(l, claimed))]
              ELSE verifier' = [called EXCEPT
                       !.pc = "done", !.result = Some(Err("Invalid proof length"))]
    /\ UNCHANGED <<f1, f2, f3, g, prover, proof, mle, engine>>

\* Phase 1 loop body, first half: verify_round(&mut verifier_state1, msg)?
VerifyPhase1Round ==
    /\ verifier.pc = "phase1"
    /\ Len(verifier.u) < Len(Get(verifier.proof).phase1_msgs)
    /\ LET msg == Get(verifier.proof).phase1_msgs[Len(verifier.u) + 1]
           counted == [verifier EXCEPT !.verify_round_calls = @ + 1]
       IN  IF verify_round(Get(verifier.verifier_state1), msg)
           THEN verifier' = [counted EXCEPT !.pc = "phase1_challenge"]
           ELSE verifier' = [counted EXCEPT
                    !.pc = "done", !.result = Some(Err("Round check failed"))]
    /\ UNCHANGED <<f1, f2, f3, g, prover, proof, mle, engine>>

\* Phase 1 loop body, second half: get_r, u.push, apply_challenge_verifier.
VerifyPhase1Challenge ==
    /\ verifier.pc = "phase1_challenge"
    /\ \E r_i \in Challenges :
          verifier' = [verifier EXCEPT
              !.pc = "phase1",
              !.get_r_calls = @ + 1,
              !.u = Append(@, r_i),
              !.verifier_state1 = Some(apply_challenge_verifier(Get(@), r_i))]
    /\ UNCHANGED <<f1, f2, f3, g, prover, proof, mle, engine>>

\* a faulty chaining step: Phase 2 is set up with a zero claimed sum instead
\* of the expected value finalize returned
VerifyPhase1FinalizeZeroClaim ==
    /\ verifier.pc = "phase1"
    /\ Len(verifier.u) >= Len(Get(verifier.proof).phase1_msgs)
    /\ LET subclaim1 == finalize(Get(verifier.verifier_state1), verifier.claimed_sum)
       IN  IF subclaim1.ok
           THEN verifier' = [verifier EXCEPT
                    !.pc = "phase2",
                    !.subclaim1 = Some(subclaim1),
                    !.verifier_state2 = Some(verifier_init(verifier.f2_num_vars, 0))]
           ELSE verifier' = [verifier EXCEPT
                    !.pc = "done", !.result = Some(Err("Final sum-check failed"))]
    /\ UNCHANGED <<f1, f2, f3, g, prover, proof, mle, engine>>

\* after the Phase 1 loop: finalize(verifier_state1, claimed_sum)?, then
\* verifier_init for Phase 2 with the subclaim's expected value.
VerifyPhase1Finalize ==
    /\ verifier.pc = "phase1"
    /\ Len(verifier.u) >= Len(Get(verifier.proof).phase1_msgs)
    /\ LET subclaim1 == finalize(Get(verifier.verifier_state1), verifier.claimed_sum)
       IN  IF subclaim1.ok
           THEN verifier' = [verifier EXCEPT
                    !.pc = "phase2",
                    !.subclaim1 = Some(subclaim1),
                    !.verifier_state2 =
                        Some(verifier_init(verifier.f2_num_vars, subclaim1.expected_value))]
           ELSE verifier' = [verifier EXCEPT
                    !.pc = "done", !.result = Some(Err("Final sum-check failed"))]
    /\ UNCHANGED <<f1, f2, f3, g, prover, proof, mle, engine>>

\* Phase 2 loop body, first half: verify_round(&mut verifier_state2, msg)?
VerifyPhase2Round ==
    /\ verifier.pc = "phase2"
    /\ Len(verifier.v) < Len(Get(verifier.proof).phase2_msgs)
    /\ LET msg == Get(verifier.proof).phase2_msgs[Len(verifier.v) + 1]
           counted == [verifier EXCEPT !.verify_round_calls = @ + 1]
       IN  IF verify_round(Get(verifier.verifier_state2), msg)
           THEN verifier' = [counted EXCEPT !.pc = "phase2_challenge"]
           ELSE verifier' = [counted EXCEPT
                    !.pc = "done", !.result = Some(Err("Round check failed"))]
    /\ UNCHANGED <<f1, f2, f3, g, prover, proof, mle, engine>>

\* Phase 2 loop body, second half: get_r, v.push, apply_challenge_verifier.
VerifyPhase2Challenge ==
    /\ verifier.pc = "phase2_challenge"
    /\ \E r_j \in Challenges :
          verifier' = [verifier EXCEPT
              !.pc = "phase2",
              !.get_r_calls = @ + 1,
              !.v = Append(@, r_j),
              !.verifier_state2 = Some(apply_challenge_verifier(Get(@), r_j))]
    /\ UNCHANGED <<f1, f2, f3, g, prover, proof, mle, engine>>

\* after the Phase 2 loop: finalize(verifier_state2, expected_phase1_val)?,
\* then Ok(LinearGKRSubclaim { u: u_point, v: v_point, expected_value }).
VerifyPhase2Finalize ==
    /\ verifier.pc = "phase2"
    /\ Len(verifier.v) >= Len(Get(verifier.proof).phase2_msgs)
    /\ LET subclaim2 ==
               finalize(Get(verifier.verifier_state2), Get(verifier.subclaim1).expected_value)
       IN  IF subclaim2.ok
           THEN verifier' = [verifier EXCEPT
                    !.pc = "done",
                    !.subclaim2 = Some(subclaim2),
                    !.result = Some(Ok(Get(verifier.subclaim1).point, subclaim2.point,
                                       subclaim2.expected_value))]
           ELSE verifier' = [verifier EXCEPT
                    !.pc = "done", !.result = Some(Err("Final sum-check failed"))]
    /\ UNCHANGED <<f1, f2, f3, g, prover, proof, mle, engine>>

Next ==
    \/ ProveInit
    \/ ProvePhase1Msg
    \/ ProvePhase1Challenge
    \/ ProvePhase2Init
    \/ ProvePhase2Msg
    \/ ProvePhase2Challenge
    \/ ProveReturn
    \/ VerifyCall
    \/ VerifyPhase1Round
    \/ VerifyPhase1Challenge
    \/ VerifyPhase1Finalize
    \/ VerifyPhase2Round
    \/ VerifyPhase2Challenge
    \/ VerifyPhase2Finalize

Spec == Init /\ [][Next]_vars

\* ------------------------------------- SpecHonest: the session of the test

\* the inputs of tests/test_gkr.rs for every l up to MaxRounds: f1 = 1 on all
\* points, f2 = 2, 3, ..., f3 = 4, 5, ..., g = (1, ..., 1)
InitHonest ==
    /\ \E l \in 0 .. MaxRounds :
          /\ f1 = Predicate(3 * l, 0 .. (Pow2(3 * l) - 1))
          /\ f2 = Ramp(l, 2)
          /\ f3 = Ramp(l, 4)
          /\ g = [i \in 1 .. l |-> 1]
    /\ prover = ProverIdle
    /\ proof = None
    /\ verifier = VerifierIdle
    /\ mle = MleIdle
    /\ engine = EngineIdle

\* verify as linear_gkr_test calls it: l = g.len(), the claimed sum of the
\* session, the proof prove returned.
VerifyCallHonest ==
    /\ prover.pc = "done"
    /\ verifier.pc = "idle"
    /\ LET l       == Len(g)
           claimed == Get(prover.claimed_sum_phase1)
           called  == [verifier EXCEPT
                          !.f2_num_vars = l, !.claimed_sum = claimed, !.proof = proof]
       IN  IF LengthsOk(l, Get(proof))
           THEN verifier' = [called EXCEPT
                    !.pc = "phase1",
                    !.verifier_state1 = Some(verifier_init(l, claimed))]
           ELSE verifier' = [called EXCEPT
                    !.pc = "done", !.result = Some(Err("Invalid proof length"))]
    /\ UNCHANGED <<f1, f2, f3, g, prover, proof, mle, engine>>

NextHonest ==
    \/ ProveInit
    \/ ProvePhase1Msg
    \/ ProvePhase1Challenge
    \/ ProvePhase2Init
    \/ ProvePhase2Msg
    \/ ProvePhase2Challenge
    \/ ProveReturn
    \/ VerifyCallHonest
    \/ VerifyPhase1Round
    \/ VerifyPhase1Challenge
    \/ VerifyPhase1Finalize
    \/ VerifyPhase2Round
    \/ VerifyPhase2Challenge
    \/ VerifyPhase2Finalize

SpecHonest == InitHonest /\ [][NextHonest]_vars

\* ------------------------- SpecDims: prove on inputs of any variable count

\* the variable counts within MaxSkew of n
Near(n) == {k \in (n - MaxSkew) .. (n + MaxSkew) : k >= 0}

\* prove is called with g of length l and f1, f2, f3 whose variable counts
\* are 3l, l, l or near them; each is a well-formed MLE of its own count.
InitDims ==
    /\ \E l \in 0 .. MaxL :
          /\ \E n1 \in Near(3 * l) : f1 \in F1Inputs(n1)
          /\ \E n2 \in Near(l) : f2 = Ramp(n2, 2)
          /\ \E n3 \in Near(l) : f3 = Ramp(n3, 4)
          /\ g \in BoolPoints(l)
    /\ prover = ProverIdle
    /\ proof = None
    /\ verifier = VerifierIdle
    /\ mle = MleIdle
    /\ engine = EngineIdle

NextDims ==
    \/ ProveInit
    \/ ProvePhase1Msg
    \/ ProvePhase1Challenge
    \/ ProvePhase2Init
    \/ ProvePhase2Msg
    \/ ProvePhase2Challenge
    \/ ProveReturn

SpecDims == InitDims /\ [][NextDims]_vars

\* ------------------------------ SpecPhase: prove on sparse wiring functions

\* the sparse MLEs of n variables with at most MaxSupport stored entries, each
\* with a value in 0..MaxVal
SparseOf(n) ==
    UNION {{[num_vars |-> n, evaluations |-> e] : e \in [S -> 0 .. MaxVal]} :
              S \in {T \in SUBSET (0 .. (Pow2(n) - 1)) : Cardinality(T) <= MaxSupport}}

\* the dense MLEs of n variables with values in 1..MaxVal
DenseOf(n) ==
    {[num_vars |-> n, evaluations |-> e] : e \in [0 .. (Pow2(n) - 1) -> 1 .. MaxVal]}

\* prove is called with a sparse f1 of 3l variables, dense f2 and f3 of l
\* variables and a Boolean g of length l.
InitPhase ==
    /\ \E l \in 0 .. MaxL :
          /\ f1 \in SparseOf(3 * l)
          /\ f2 \in DenseOf(l)
          /\ f3 \in DenseOf(l)
          /\ g \in BoolPoints(l)
    /\ prover = ProverIdle
    /\ proof = None
    /\ verifier = VerifierIdle
    /\ mle = MleIdle
    /\ engine = EngineIdle

NextPhase ==
    \/ ProveInit
    \/ ProvePhase1Msg
    \/ ProvePhase1Challenge
    \/ ProvePhase2Init
    \/ ProvePhase2Msg
    \/ ProvePhase2Challenge
    \/ ProveReturn

SpecPhase == InitPhase /\ [][NextPhase]_vars

\* ------------------------------------------------- SpecMLE: ml_extension.rs

\* the subsets of S with at most k elements
SubsetsUpTo(S, k) == {T \in SUBSET S : Cardinality(T) <= k}

\* the sparse MLEs under test
SparseInputs ==
    UNION {UNION {{[num_vars |-> n, evaluations |-> e] : e \in [S -> 0 .. MaxVal]} :
                     S \in SubsetsUpTo(0 .. (Pow2(n) - 1), MaxSupport)} :
              n \in 0 .. MaxVars}

\* the points of length n with coordinates in 0..MaxCoord
Points(n) == [1 .. n -> 0 .. MaxCoord]

\* the prefixes a caller fixes: every length up to num_vars, and one that is
\* too long
Prefixes(n) == UNION {Points(k) : k \in 0 .. n} \cup {[i \in 1 .. (n + 1) |-> 0]}

\* the points a caller evaluates at: those of the right length, and one that
\* is too long
EvalPoints(n) == Points(n) \cup {[i \in 1 .. (n + 1) |-> 0]}

InitMLE ==
    /\ f1 = Predicate(0, {})
    /\ f2 = Ramp(0, 2)
    /\ f3 = Ramp(0, 4)
    /\ g = <<>>
    /\ prover = [ProverIdle EXCEPT !.pc = "off"]
    /\ proof = None
    /\ verifier = [VerifierIdle EXCEPT !.pc = "off"]
    /\ \E sp \in SparseInputs : mle = [MleIdle EXCEPT !.pc = "sparse", !.sparse = sp]
    /\ engine = EngineIdle

\* the SparseMLE the next operation is applied to
CurrentSparse == IF mle.reduced = None THEN mle.sparse ELSE Get(mle.reduced)

\* SparseMLE::fix_variables applied to the sparse MLE
MleFixVariables ==
    /\ mle.pc = "sparse"
    /\ \E fixed \in Prefixes(mle.sparse.num_vars) :
          IF FixVariablesOk(mle.sparse, fixed)
          THEN mle' = [mle EXCEPT !.pc = "fixed", !.fixed = fixed,
                                  !.reduced = Some(fix_variables(mle.sparse, fixed))]
          ELSE mle' = [mle EXCEPT !.pc = "panic", !.fixed = fixed]
    /\ UNCHANGED <<f1, f2, f3, g, prover, proof, verifier, engine>>

\* SparseMLE::to_dense_multilinear_extension applied to the sparse MLE or to
\* the result of fix_variables
MleToDense ==
    /\ mle.pc \in {"sparse", "fixed"}
    /\ mle' = [mle EXCEPT !.pc = "dense",
                          !.dense = Some(to_dense_multilinear_extension(CurrentSparse))]
    /\ UNCHANGED <<f1, f2, f3, g, prover, proof, verifier, engine>>

\* the scalars a caller scales by
Scalars == {MaxScalar, FieldModulus - 1}

\* DenseMLE::scale applied to the dense table, which it changes in place;
\* a run scales at most once
MleScale ==
    /\ mle.pc = "dense"
    /\ mle.scalar = None
    /\ \E scalar \in Scalars :
          mle' = [mle EXCEPT !.dense = Some(scale(Get(mle.dense), scalar)),
                             !.scalar = Some(scalar)]
    /\ UNCHANGED <<f1, f2, f3, g, prover, proof, verifier, engine>>

\* DenseMLE::evaluate applied to the dense table
MleEvaluate ==
    /\ mle.pc = "dense"
    /\ \E point \in EvalPoints(Get(mle.dense).num_vars) :
          IF EvaluateOk(Get(mle.dense), point)
          THEN mle' = [mle EXCEPT !.pc = "evaluated", !.point = point,
                                  !.value = Some(Evaluate(Get(mle.dense), point))]
          ELSE mle' = [mle EXCEPT !.pc = "panic", !.point = point]
    /\ UNCHANGED <<f1, f2, f3, g, prover, proof, verifier, engine>>

NextMLE ==
    \/ MleFixVariables
    \/ MleToDense
    \/ MleScale
    \/ MleEvaluate

SpecMLE == InitMLE /\ [][NextMLE]_vars

\* --------------------------------- SpecEngine: the generic sum-check engine

\* ScalarField::pow
RECURSIVE FPow(_, _)
FPow(x, k) == IF k = 0 THEN 1 ELSE FMul(x, FPow(x, k - 1))

\* A UniPoly (univariate SparsePolynomial) is the function from the degrees
\* that have a non-zero coefficient to that coefficient.
\* UniPoly::from_coefficients_vec(vec![]) and vec![(0, 0)]: the zero polynomial
UniZero == [k \in {} |-> 0]

\* UniPoly::from_coefficients_vec(vec![(d, c)]): a zero coefficient is dropped
UniMonomial(d, c) == [k \in (IF is_zero(c) THEN {} ELSE {d}) |-> c % FieldModulus]

UniCoeff(p, k) == IF k \in DOMAIN p THEN p[k] ELSE 0

\* UniPoly + UniPoly: coefficients of equal degree are added and a sum that
\* is zero is dropped
UniAdd(p, q) ==
    [k \in {d \in (DOMAIN p) \cup (DOMAIN q) : ~is_zero(UniCoeff(p, d) + UniCoeff(q, d))}
        |-> FAdd(UniCoeff(p, k), UniCoeff(q, k))]

\* UniPoly::degree: the largest stored degree, 0 for the zero polynomial
UniDegree(p) ==
    IF DOMAIN p = {} THEN 0 ELSE CHOOSE d \in DOMAIN p : \A e \in DOMAIN p : e <= d

\* UniPoly::evaluate
UniEvaluate(p, x) == FSum(DOMAIN p, [k \in DOMAIN p |-> FMul(p[k], FPow(x, k))])

\* A SparseTerm is the function from the variables of the term (0-based) to
\* their powers, all at least 1.  SparseTerm::degree: the sum of the powers.
RECURSIVE TermDegreeFold(_, _)
TermDegreeFold(term, vs) ==
    IF vs = {} THEN 0
    ELSE LET var == CHOOSE x \in vs : TRUE
         IN  term[var] + TermDegreeFold(term, vs \ {var})

TermDegree(term) == TermDegreeFold(term, DOMAIN term)

\* the fold of SparseTerm::evaluate over the (var, power) pairs vs of term
RECURSIVE TermEvaluateFold(_, _, _)
TermEvaluateFold(term, point, vs) ==
    IF vs = {} THEN 1
    ELSE LET var == CHOOSE x \in vs : TRUE
         IN  FMul(FPow(point[var + 1], term[var]), TermEvaluateFold(term, point, vs \ {var}))

\* SparseTerm::evaluate: the product of point[var]^power
TermEvaluate(term, point) == TermEvaluateFold(term, point, DOMAIN term)

\* A MultiPoly is [num_vars, terms], terms the function from the SparseTerms
\* of the polynomial to their non-zero coefficients.
\* the fold of MultiPoly::evaluate over the terms ts
RECURSIVE MultiEvaluateFold(_, _, _)
MultiEvaluateFold(poly, point, ts) ==
    IF ts = {} THEN 0
    ELSE LET term == CHOOSE t \in ts : TRUE
         IN  FAdd(FMul(poly.terms[term], TermEvaluate(term, point)),
                  MultiEvaluateFold(poly, point, ts \ {term}))

\* MultiPoly::evaluate
MultiEvaluate(poly, point) == MultiEvaluateFold(poly, point, DOMAIN poly.terms)

\* format!("{:b}", i)
RECURSIVE BinaryDigits(_)
BinaryDigits(i) == IF i < 2 THEN <<i>> ELSE Append(BinaryDigits(i \div 2), i % 2)

\* n_to_vec: the binary digits of i, most significant first, padded with
\* zeros on the left to width n
n_to_vec(i, n) ==
    LET digits == BinaryDigits(i)
    IN  IF Len(digits) >= n THEN digits
        ELSE [k \in 1 .. n |-> IF k <= n - Len(digits) THEN 0 ELSE digits[k - (n - Len(digits))]]

\* Prover::new
Prover_new(poly) == [g |-> poly, r_vec |-> <<>>]

\* the fold of Prover::evaluate_term over the (var, power) pairs vs of term
RECURSIVE evaluate_term_fold(_, _, _, _)
evaluate_term_fold(p, term, point, vs) ==
    IF vs = {} THEN 1
    ELSE LET var == CHOOSE x \in vs : TRUE
             product == evaluate_term_fold(p, term, point, vs \ {var})
         IN  IF var = Len(p.r_vec) THEN product
             ELSE IF var < Len(p.r_vec)
                  THEN FMul(FPow(p.r_vec[var + 1], term[var]), product)
                  ELSE FMul(FPow(point[var - Len(p.r_vec) + 1], term[var]), product)

\* Prover::evaluate_term: the product of the powers of every variable but
\* X_j, j = r_vec.len(), and the term X_j^power if term has X_j
evaluate_term(p, term, point) ==
    [coeff |-> evaluate_term_fold(p, term, point, DOMAIN term),
     fixed_term |-> IF Len(p.r_vec) \in DOMAIN term
                    THEN Some([x \in {Len(p.r_vec)} |-> term[Len(p.r_vec)]])
                    ELSE None]

\* the fold of Prover::evaluate_gj over the terms ts of p.g
RECURSIVE evaluate_gj_fold(_, _, _)
evaluate_gj_fold(p, points, ts) ==
    IF ts = {} THEN UniZero
    ELSE LET term == CHOOSE t \in ts : TRUE
             et == evaluate_term(p, term, points)
             c == FMul(p.g.terms[term], et.coeff)
             curr == IF et.fixed_term = None
                     THEN UniMonomial(0, c)
                     ELSE UniMonomial(TermDegree(Get(et.fixed_term)), c)
         IN  UniAdd(curr, evaluate_gj_fold(p, points, ts \ {term}))

\* Prover::evaluate_gj
evaluate_gj(p, points) == evaluate_gj_fold(p, points, DOMAIN p.g.terms)

\* the fold of Prover::gen_uni_polynomial over 0..n-1
RECURSIVE gen_uni_fold(_, _, _)
gen_uni_fold(p, v, n) ==
    IF n = 0 THEN UniZero
    ELSE UniAdd(gen_uni_fold(p, v, n - 1), evaluate_gj(p, n_to_vec(n - 1, v)))

\* the prover after "if let Some(r_val) = r { self.r_vec.push(r_val) }"
push_r(p, r) == IF r = None THEN p ELSE [p EXCEPT !.r_vec = Append(@, Get(r))]

\* the sum of evaluate_gj over all 2^v points of width v
gen_uni_polynomial_all_points(p, r) ==
    LET q == push_r(p, r)
        v == q.g.num_vars - Len(q.r_vec)
    IN  [p |-> q, overflow |-> v < 1,
         poly |-> IF v < 1 THEN UniZero ELSE gen_uni_fold(q, v, Pow2(v))]

\* Prover::gen_uni_polynomial: the prover after the call and the polynomial
\* returned, the sum of evaluate_gj over the 2^(v-1) points of width v.
\* With v < 1 the subtractions of lines 44-45 overflow (overflow |-> TRUE): a
\* build with overflow checks panics there, r already pushed; a build without
\* them wraps, 2u32.pow wraps to 0, the range is empty and the zero polynomial
\* is returned.
gen_uni_polynomial(p, r) ==
    LET q == push_r(p, r)
        v == q.g.num_vars - Len(q.r_vec)
    IN  [p |-> q, overflow |-> v < 1,
         poly |-> IF v < 1 THEN UniZero ELSE gen_uni_fold(q, v, Pow2(v - 1))]

\* Prover::slow_sum_g
slow_sum_g(p) ==
    LET v == p.g.num_vars
    IN  FSum(0 .. (Pow2(v) - 1),
             [n \in 0 .. (Pow2(v) - 1) |-> MultiEvaluate(p.g, n_to_vec(n, v))])

\* max_degrees: for every variable the largest power it has in a term
max_degrees(poly) ==
    [k \in 1 .. poly.num_vars |->
        LET powers == {t[k - 1] : t \in {u \in DOMAIN poly.terms : (k - 1) \in DOMAIN u}}
        IN  IF powers = {} THEN 0 ELSE CHOOSE d \in powers : \A e \in powers : e <= d]

\* slow_verify
slow_verify(poly, c_1) == slow_sum_g(Prover_new(poly)) = c_1

\* sumcheck::get_r in sumcheck::verify: the model draws it from
\* EngineChallenges.
EngineChallenges == {MaxEngineChal, FieldModulus - 1}

\* SparseTerm::new on the powers pw: the variables of power 0 are left out
SparseTerm_new(pw) == [x \in {y \in DOMAIN pw : pw[y] > 0} |-> pw[x]]

\* the terms of n variables of total degree at most MaxDegree
SparseTerms(n) ==
    {t \in {SparseTerm_new(pw) : pw \in [0 .. (n - 1) -> 0 .. MaxDegree]} :
        TermDegree(t) <= MaxDegree}

\* the coefficients 1 and -1
Coeffs == {1, FieldModulus - 1}

\* the sets of at most k terms of T
RECURSIVE TermSets(_, _)
TermSets(T, k) ==
    IF k = 0 THEN {{}}
    ELSE LET smaller == TermSets(T, k - 1)
         IN  smaller \cup {S \cup {t} : S \in smaller, t \in T}

\* the polynomials under test
MultiPolys ==
    UNION {UNION {{[num_vars |-> n, terms |-> t] : t \in [S -> Coeffs]} :
                     S \in TermSets(SparseTerms(n), MaxTerms)} :
              n \in 1 .. MaxEngineVars}

\* slow_verify(g, c_1) and then verify(g, c_1), on a polynomial of at least
\* one variable and a claim that is the sum of g, or that sum plus MaxDelta
InitEngine ==
    /\ f1 = Predicate(0, {})
    /\ f2 = Ramp(0, 2)
    /\ f3 = Ramp(0, 4)
    /\ g = <<>>
    /\ prover = [ProverIdle EXCEPT !.pc = "off"]
    /\ proof = None
    /\ verifier = VerifierIdle
    /\ mle = MleIdle
    /\ \E poly \in MultiPolys, d \in {0, MaxDelta} :
          engine = [EngineIdle EXCEPT !.pc = "slow_verify", !.g = poly,
                                      !.c_1 = FAdd(slow_sum_g(Prover_new(poly)), d)]

\* slow_verify(g, c_1) (lines 143-147)
SlowVerifyCall ==
    /\ engine.pc = "slow_verify"
    /\ engine' = [engine EXCEPT !.pc = "verify",
                                !.slow_result = Some(slow_verify(engine.g, engine.c_1))]
    /\ UNCHANGED <<f1, f2, f3, g, prover, proof, verifier, mle>>

\* the Prover held by verify
EngineProver == [g |-> engine.g, r_vec |-> engine.r_vec]

\* the builds gen_uni_polynomial's result leaves open: overflow checks on or
\* off when the subtraction overflows, immaterial when it does not
OverflowChecks(gen) == IF gen.overflow THEN BOOLEAN ELSE {FALSE}

VerifyFirstRoundReturnsFalse ==
    /\ engine.pc = "verify"
    /\ LET gen == gen_uni_polynomial(Prover_new(engine.g), None)
           gi == gen.poly
           expected_c == FAdd(UniEvaluate(gi, 0), UniEvaluate(gi, 1))
       IN  IF engine.c_1 # expected_c
           THEN engine' = [engine EXCEPT !.pc = "returned", !.result = Some(FALSE),
                                         !.gi = gi, !.expected_c = Some(expected_c)]
           ELSE engine' = [engine EXCEPT !.pc = "loop", !.j = 1, !.gi = gi,
                                         !.r_vec = gen.p.r_vec,
                                         !.expected_c = Some(expected_c)]
    /\ UNCHANGED <<f1, f2, f3, g, prover, proof, verifier, mle>>

\* verify, first round (lines 118-123): the first polynomial, the check
\* against c_1 and the degree check, lookup_degree[0] being out of bounds
\* for a polynomial of no variable
VerifyFirstRound ==
    /\ engine.pc = "verify"
    /\ LET gen == gen_uni_polynomial(Prover_new(engine.g), None)
           gi == gen.poly
           expected_c == FAdd(UniEvaluate(gi, 0), UniEvaluate(gi, 1))
           lookup_degree == max_degrees(engine.g)
           next == [engine EXCEPT !.gi = gi, !.r_vec = gen.p.r_vec,
                                  !.expected_c = Some(expected_c)]
       IN  \E checked \in OverflowChecks(gen) :
              IF checked
              THEN engine' = [engine EXCEPT !.pc = "panic", !.failed = "overflow",
                                            !.r_vec = gen.p.r_vec]
              ELSE IF engine.c_1 # expected_c
              THEN engine' = [next EXCEPT !.pc = "panic", !.failed = "round"]
              ELSE IF Len(lookup_degree) < 1
              THEN engine' = [next EXCEPT !.pc = "panic", !.failed = "index"]
              ELSE IF ~(UniDegree(gi) <= lookup_degree[1])
              THEN engine' = [next EXCEPT !.pc = "panic", !.failed = "degree"]
              ELSE engine' = [next EXCEPT !.pc = "loop", !.j = 1]
    /\ UNCHANGED <<f1, f2, f3, g, prover, proof, verifier, mle>>

\* verify, one middle round (lines 126-133), j in 1..num_vars-1
VerifyMiddleRound ==
    /\ engine.pc = "loop"
    /\ engine.j < engine.g.num_vars
    /\ \E r \in EngineChallenges :
          LET expected_c == UniEvaluate(engine.gi, r)
              gen == gen_uni_polynomial(EngineProver, Some(r))
              gi == gen.poly
              new_c == FAdd(UniEvaluate(gi, 0), UniEvaluate(gi, 1))
              lookup_degree == max_degrees(engine.g)
              next == [engine EXCEPT !.gi = gi, !.r_vec = gen.p.r_vec,
                                     !.expected_c = Some(expected_c),
                                     !.new_c = Some(new_c)]
          IN  \E checked \in OverflowChecks(gen) :
                 IF checked
                 THEN engine' = [engine EXCEPT !.pc = "panic", !.failed = "overflow",
                                               !.r_vec = gen.p.r_vec,
                                               !.expected_c = Some(expected_c)]
                 ELSE IF expected_c # new_c
                 THEN engine' = [next EXCEPT !.pc = "panic", !.failed = "round"]
                 ELSE IF ~(UniDegree(gi) <= lookup_degree[engine.j + 1])
                 THEN engine' = [next EXCEPT !.pc = "panic", !.failed = "degree"]
                 ELSE engine' = [next EXCEPT !.j = @ + 1]
    /\ UNCHANGED <<f1, f2, f3, g, prover, proof, verifier, mle>>

\* verify, final round (lines 135-140): the last challenge and the
\* evaluation of g at the challenge vector
VerifyFinalRound ==
    /\ engine.pc = "loop"
    /\ engine.j >= engine.g.num_vars
    /\ \E r \in EngineChallenges :
          LET expected_c == UniEvaluate(engine.gi, r)
              r_vec == Append(engine.r_vec, r)
              new_c == MultiEvaluate(engine.g, r_vec)
              next == [engine EXCEPT !.r_vec = r_vec,
                                     !.expected_c = Some(expected_c),
                                     !.new_c = Some(new_c)]
          IN  IF expected_c # new_c
              THEN engine' = [next EXCEPT !.pc = "panic", !.failed = "final"]
              ELSE engine' = [next EXCEPT !.pc = "returned", !.result = Some(TRUE)]
    /\ UNCHANGED <<f1, f2, f3, g, prover, proof, verifier, mle>>

NextEngine ==
    \/ SlowVerifyCall
    \/ VerifyFirstRound
    \/ VerifyMiddleRound
    \/ VerifyFinalRound

SpecEngine == InitEngine /\ [][NextEngine]_vars

\* the polynomials of no variable: zero and the constants 1 and -1
ConstantPolys ==
    UNION {{[num_vars |-> 0, terms |-> t] : t \in [S -> Coeffs]} :
              S \in TermSets(SparseTerms(0), MaxTerms)}

\* slow_verify(g, c_1) and then verify(g, c_1), on any polynomial, those of
\* no variable included
InitEngineAll ==
    /\ f1 = Predicate(0, {})
    /\ f2 = Ramp(0, 2)
    /\ f3 = Ramp(0, 4)
    /\ g = <<>>
    /\ prover = [ProverIdle EXCEPT !.pc = "off"]
    /\ proof = None
    /\ verifier = VerifierIdle
    /\ mle = MleIdle
    /\ \E poly \in MultiPolys \cup ConstantPolys, d \in {0, MaxDelta} :
          engine = [EngineIdle EXCEPT !.pc = "slow_verify", !.g = poly,
                                      !.c_1 = FAdd(slow_sum_g(Prover_new(poly)), d)]

SpecEngineAll == InitEngineAll /\ [][NextEngine]_vars

\* ------------------------------------------------------------------ claims

\* a round message (coefficients, constant first) read as a univariate
\* polynomial and evaluated at x, by Horner's rule from coefficient k on
RECURSIVE EvalUniFrom(_, _, _)
EvalUniFrom(msg, x, k) ==
    IF k > Len(msg) THEN 0
    ELSE FAdd(msg[k], FMul(x, EvalUniFrom(msg, x, k + 1)))

EvalUni(msg, x) == EvalUniFrom(msg, x, 1)

\* g_i(0) + g_i(1)
SumAt01(msg) == FAdd(EvalUni(msg, 0), EvalUni(msg, 1))

\* verify has returned
Returned == verifier.pc = "done" /\ verifier.result # None

\* verify was called on the proof prove returned, with l = g.len()
HonestProofCall ==
    /\ verifier.pc \notin {"idle", "off"}
    /\ verifier.proof = proof
    /\ verifier.f2_num_vars = Len(g)

\* ... and with the claimed sum prove computed
HonestCall == HonestProofCall /\ verifier.claimed_sum = Get(prover.claimed_sum_phase1)

\* the inputs of tests/test_gkr.rs
ConcreteScenario ==
    /\ f1 = Predicate(3, 0 .. 7)
    /\ f2 = Ramp(1, 2)
    /\ f3 = Ramp(1, 4)
    /\ g = <<1>>

\* C1 (completeness): verify, called with l = g.len(), the claimed sum prove
\* computed and the proof prove returned, returns Ok whatever challenges were
\* drawn.
C1_Completeness == (Returned /\ HonestCall) => Get(verifier.result).ok

C1_Witness ==
    /\ Returned /\ HonestCall /\ ConcreteScenario
    /\ verifier.claimed_sum = 45
    /\ Get(verifier.result).ok

\* C2 (wrong-claim rejection): verify, called with the proof prove returned
\* and a claimed sum other than the one prove computed, returns Err; in the
\* concrete scenario the proof accepted against 45 is rejected against 44.
C2_WrongClaimRejected ==
    (Returned /\ HonestProofCall /\ verifier.claimed_sum # Get(prover.claimed_sum_phase1))
        => ~Get(verifier.result).ok

\* the proof handed to verify has a message list whose length is not l
Malformed ==
    /\ verifier.proof # None
    /\ \/ Len(Get(verifier.proof).phase1_msgs) # verifier.f2_num_vars
       \/ Len(Get(verifier.proof).phase2_msgs) # verifier.f2_num_vars

\* C3 (malformed-proof rejection): a proof whose phase1_msgs or phase2_msgs
\* length differs from l is rejected at once: verify has returned Err, no
\* verify_round call was made, no challenge drawn, no verifier state created.
C3_MalformedRejected ==
    Malformed =>
        /\ Returned
        /\ Get(verifier.result) = Err("Invalid proof length")
        /\ verifier.verify_round_calls = 0
        /\ verifier.get_r_calls = 0
        /\ verifier.u = <<>> /\ verifier.v = <<>>
        /\ verifier.verifier_state1 = None /\ verifier.verifier_state2 = None
        /\ verifier.subclaim1 = None /\ verifier.subclaim2 = None

\* phase1_msgs has the right length and phase2_msgs does not
C3_Witness ==
    /\ Returned /\ Malformed
    /\ verifier.f2_num_vars = 1
    /\ Len(Get(verifier.proof).phase1_msgs) = 1
    /\ Len(Get(verifier.proof).phase2_msgs) # 1
    /\ ~Get(verifier.result).ok

\* the value round i of Phase 1 is checked against: the claimed sum in round
\* 1, g_{i-1}(r_{i-1}) afterwards
Expected1(i) ==
    IF i = 1 THEN verifier.claimed_sum
    ELSE EvalUni(Get(verifier.proof).phase1_msgs[i - 1], verifier.u[i - 1])

\* the same for Phase 2, whose claimed sum is Phase 1's final expected value
Expected2(i) ==
    IF i = 1 THEN Get(verifier.subclaim1).expected_value
    ELSE EvalUni(Get(verifier.proof).phase2_msgs[i - 1], verifier.v[i - 1])

\* some round the verifier has processed fails g_i(0) + g_i(1) = expected
SomeRoundCheckFails ==
    \/ \E i \in 1 .. Len(verifier.u) :
          SumAt01(Get(verifier.proof).phase1_msgs[i]) # Expected1(i)
    \/ /\ verifier.subclaim1 # None
       /\ \E i \in 1 .. Len(verifier.v) :
             SumAt01(Get(verifier.proof).phase2_msgs[i]) # Expected2(i)

\* C4 (round-check rejection): for a proof with l messages per phase, if a
\* round message has g_i(0) + g_i(1) different from the expected value, verify
\* returns Err and never a Subclaim.
C4_RoundCheckRejects ==
    (Returned /\ ~Malformed /\ SomeRoundCheckFails) => ~Get(verifier.result).ok

\* C5 (round consistency of the honest prover): in each phase of prove, the
\* message of round i has g_i(0) + g_i(1) equal to the phase's claimed sum for
\* i = 1 and to g_{i-1}(r_{i-1}) for i > 1.
C5_RoundConsistency ==
    /\ \A i \in 1 .. Len(prover.phase1_msgs) :
          SumAt01(prover.phase1_msgs[i]) =
              (IF i = 1 THEN Get(prover.claimed_sum_phase1)
               ELSE EvalUni(prover.phase1_msgs[i - 1], prover.u[i - 1]))
    /\ \A i \in 1 .. Len(prover.phase2_msgs) :
          SumAt01(prover.phase2_msgs[i]) =
              (IF i = 1 THEN Get(prover.claimed_sum_phase2)
               ELSE EvalUni(prover.phase2_msgs[i - 1], prover.v[i - 1]))

\* C6 (verifier expected-value update): after round i of a phase is processed
\* with challenge r_i the state's expected value is g_i(r_i); for l >= 1 the
\* returned expected_value is the last Phase 2 message at the last challenge.
C6_ExpectedValueUpdated ==
    /\ (verifier.pc = "phase1" /\ Len(verifier.u) >= 1) =>
          Get(verifier.verifier_state1).current_sum =
              EvalUni(Get(verifier.proof).phase1_msgs[Len(verifier.u)],
                      verifier.u[Len(verifier.u)])
    /\ (verifier.pc = "phase2" /\ Len(verifier.v) >= 1) =>
          Get(verifier.verifier_state2).current_sum =
              EvalUni(Get(verifier.proof).phase2_msgs[Len(verifier.v)],
                      verifier.v[Len(verifier.v)])
    /\ (Returned /\ Get(verifier.result).ok /\ verifier.f2_num_vars >= 1) =>
          Get(verifier.result).expected_value =
              EvalUni(Get(verifier.proof).phase2_msgs[Len(verifier.v)],
                      verifier.v[Len(verifier.v)])

\* C7 (subclaim point): when verify returns Ok, the returned u is the sequence
\* of the challenges drawn in Phase 1 and the returned v that of Phase 2.
C7_SubclaimIsChallenges ==
    (Returned /\ Get(verifier.result).ok) =>
        /\ Get(verifier.result).u = verifier.u
        /\ Get(verifier.result).v = verifier.v

\* C8 (challenge replay): the challenges prove collected in u and v are,
\* element by element, the challenges verify draws for the same rounds of
\* that proof.
C8_ChallengeReplay ==
    HonestProofCall =>
        /\ \A i \in 1 .. Len(verifier.u) : verifier.u[i] = prover.u[i]
        /\ \A i \in 1 .. Len(verifier.v) : verifier.v[i] = prover.v[i]

\* a point all of whose coordinates are 0 or 1
IsBoolean(point) == \A i \in 1 .. Len(point) : point[i] \in {0, 1}

\* the MSB-first flat index of a Boolean point
RECURSIVE FlatIndex(_, _)
FlatIndex(point, acc) ==
    IF point = <<>> THEN acc ELSE FlatIndex(Tail(point), 2 * acc + Head(point))

\* the value a sparse MLE stores at an index, absent entries counting as zero
StoredAt(f, idx) == IF idx \in DOMAIN f.evaluations THEN f.evaluations[idx] ELSE 0

\* C9 (fix-then-evaluate): for a Boolean prefix p and a Boolean suffix s, the
\* dense form of f.fix_variables(p), not scaled, evaluated at s equals the
\* dense form of f evaluated at p ++ s.
C9_FixThenEvaluate ==
    (/\ mle.pc = "evaluated" /\ mle.reduced # None /\ mle.scalar = None
     /\ IsBoolean(mle.fixed) /\ IsBoolean(mle.point))
        => Get(mle.value) =
              Evaluate(to_dense_multilinear_extension(mle.sparse), mle.fixed \o mle.point)

\* a non-zero entry sits behind a proper prefix and a proper suffix
C9_Witness ==
    /\ mle.pc = "evaluated" /\ mle.reduced # None /\ mle.scalar = None
    /\ IsBoolean(mle.fixed) /\ IsBoolean(mle.point)
    /\ Len(mle.fixed) = 1 /\ Len(mle.point) = 1
    /\ mle.fixed # mle.point
    /\ Get(mle.value) # 0

\* C10 (sparse/dense equivalence): the dense form of a sparse MLE, not
\* scaled, evaluated at a Boolean point b is the value stored at the MSB-first
\* index of b, zero when absent; the dense table has length 2^n.
C10_SparseDenseEquivalence ==
    /\ mle.dense # None =>
          DOMAIN Get(mle.dense).evaluations = 0 .. (Pow2(CurrentSparse.num_vars) - 1)
    /\ (mle.pc = "evaluated" /\ mle.reduced = None /\ mle.scalar = None
        /\ IsBoolean(mle.point))
          => Get(mle.value) = StoredAt(mle.sparse, FlatIndex(mle.point, 0))

\* the single stored entry, at index 2 of 4, is read back at the point (1, 0)
C10_Witness ==
    /\ mle.pc = "evaluated" /\ mle.reduced = None /\ mle.scalar = None
    /\ IsBoolean(mle.point)
    /\ mle.sparse.num_vars = 2
    /\ Cardinality(DOMAIN mle.sparse.evaluations) = 1
    /\ mle.point = <<1, 0>>
    /\ Get(mle.value) = 2

\* Phase 2 of verify has begun: its state exists, or one of its rounds ran
Phase2Begun ==
    \/ verifier.verifier_state2 # None
    \/ verifier.v # <<>>
    \/ verifier.subclaim2 # None
    \/ verifier.pc \in {"phase2", "phase2_challenge"}

\* C14 (phase chaining): the Phase 2 verifier state exists only after Phase 1
\* finalize has succeeded, and it is initialised with l variables and the
\* expected_value Phase 1 finalize returned as its claimed sum; when Phase 1
\* finalize has not succeeded, no Phase 2 round is executed, and verify
\* returns Err.
C14_PhaseChaining ==
    /\ Phase2Begun =>
          /\ verifier.subclaim1 # None
          /\ Get(verifier.subclaim1).ok
          /\ Len(verifier.u) = Len(Get(verifier.proof).phase1_msgs)
    /\ (verifier.pc = "phase2" /\ verifier.v = <<>>) =>
          Get(verifier.verifier_state2) =
              [num_vars |-> verifier.f2_num_vars,
               current_sum |-> Get(verifier.subclaim1).expected_value]
    /\ verifier.subclaim1 = None =>
          /\ verifier.verifier_state2 = None /\ verifier.v = <<>>
          /\ Returned => ~Get(verifier.result).ok

\* Phase 2 was set up from a non-zero expected value of Phase 1
C14_Witness ==
    /\ verifier.pc = "phase2" /\ verifier.v = <<>>
    /\ verifier.f2_num_vars = 1
    /\ Get(verifier.subclaim1).expected_value = 45
    /\ Get(verifier.verifier_state2).current_sum = 45

\* C15 (strict round ordering): in each session of prove and of verify the
\* message of round i+1 is produced (checked) only after the challenge of
\* round i has been drawn, each round draws exactly one challenge, and
\* Phase 2 of prove starts only after all l Phase 1 challenges were drawn.
C15_RoundOrdering ==
    /\ Len(prover.phase1_msgs) =
          Len(prover.u) + (IF prover.pc = "phase1_challenge" THEN 1 ELSE 0)
    /\ Len(prover.phase2_msgs) =
          Len(prover.v) + (IF prover.pc = "phase2_challenge" THEN 1 ELSE 0)
    /\ (prover.prover_state2 # None \/ prover.phase2_msgs # <<>> \/ prover.v # <<>>) =>
          Len(prover.u) = Len(g)
    /\ verifier.verify_round_calls =
          verifier.get_r_calls
              + (IF verifier.pc \in {"phase1_challenge", "phase2_challenge"} THEN 1 ELSE 0)
    /\ verifier.get_r_calls = Len(verifier.u) + Len(verifier.v)
    /\ (verifier.verifier_state2 # None \/ verifier.v # <<>>) =>
          Len(verifier.u) = verifier.f2_num_vars

\* both parties are past round 1 of a two-round phase: the prover has
\* produced the second Phase 1 message, the verifier has checked it
C15_Witness ==
    /\ Len(g) = 2
    /\ Len(prover.phase1_msgs) = 2 /\ Len(prover.u) = 2 /\ Len(prover.v) = 2
    /\ verifier.pc = "phase1_challenge"
    /\ verifier.verify_round_calls = 2 /\ verifier.get_r_calls = 1

\* C16 (proof shape): the proof prove returns has exactly l = g.len() messages
\* in phase1_msgs and in phase2_msgs, those the rounds produced in order, and
\* passes the length check of verify called with f2_num_vars = l.
C16_ProofShape ==
    /\ proof # None =>
          /\ Len(Get(proof).phase1_msgs) = Len(g)
          /\ Len(Get(proof).phase2_msgs) = Len(g)
          /\ Get(proof).phase1_msgs = prover.phase1_msgs
          /\ Get(proof).phase2_msgs = prover.phase2_msgs
    /\ (verifier.pc # "idle" /\ verifier.proof = proof /\ verifier.f2_num_vars = Len(g)) =>
          /\ verifier.verifier_state1 # None
          /\ Returned => Get(verifier.result) # Err("Invalid proof length")

\* a two-message proof has passed the length check
C16_Witness ==
    /\ Len(g) = 2
    /\ proof # None /\ Len(Get(proof).phase1_msgs) = 2 /\ Len(Get(proof).phase2_msgs) = 2
    /\ verifier.proof = proof
    /\ verifier.verifier_state1 # None

\* the variable counts do not match the protocol size l = g.len()
DimensionMismatch ==
    \/ f1.num_vars # 3 * Len(g)
    \/ f2.num_vars # Len(g)
    \/ f3.num_vars # Len(g)

\* C17 (dimension errors in the prover): when f1.num_vars # 3l or
\* f2.num_vars # l or f3.num_vars # l, prove produces no round message and
\* returns no proof: it fails before the first round.
C17_DimensionErrors ==
    DimensionMismatch =>
        /\ prover.phase1_msgs = <<>> /\ prover.phase2_msgs = <<>>
        /\ prover.pc \in {"init", "panic"}
        /\ proof = None

\* the factor of variable i (1-based) in the multilinear basis polynomial of
\* the index b: r_i if bit i of b (MSB-first) is 1, 1 - r_i if it is 0
BasisFactor(n, b, r, i) ==
    IF BitAt(b, n - i) = 1 THEN r[i] % FieldModulus ELSE FSub(1, r[i] % FieldModulus)

\* prod_i (r_i*b_i + (1-r_i)*(1-b_i)) from variable i on
RECURSIVE BasisFrom(_, _, _, _)
BasisFrom(n, b, r, i) ==
    IF i > n THEN 1 ELSE FMul(BasisFactor(n, b, r, i), BasisFrom(n, b, r, i + 1))

\* the multilinear extension of the table d at the point r:
\* sum over b in {0,1}^n of eval[b] * prod_i (r_i*b_i + (1-r_i)*(1-b_i))
MultilinearValue(d, r) ==
    FSum(DOMAIN d.evaluations,
         [b \in DOMAIN d.evaluations |->
              FMul(d.evaluations[b], BasisFrom(d.num_vars, b, r, 1))])

\* C18 (multilinear evaluation at arbitrary points): evaluate at any point r
\* of Field^n returns the multilinear extension of the table at r, and
\* fix_variables at any prefix p followed by evaluate at s returns the
\* multilinear extension of the original table at p ++ s (the table not
\* having been scaled).
C18_MultilinearEvaluation ==
    (mle.pc = "evaluated" /\ mle.scalar = None) =>
        Get(mle.value) =
            MultilinearValue(to_dense_multilinear_extension(mle.sparse),
                             mle.fixed \o mle.point)

\* sum over y in {0,1}^l of f(x, y) * f3(y), where f has 2l variables, x
\* first: in the MSB-first encoding the index of (x, y) is x * 2^l + y
SumOverY(f, pf3, l, x) ==
    FSum(0 .. (Pow2(l) - 1),
         [y \in 0 .. (Pow2(l) - 1) |->
              FMul(StoredAt(f, x * Pow2(l) + y), pf3.evaluations[y])])

\* C12 (Phase 1 claim): for Boolean g, claimed_sum_phase1 is the sum over
\* x, y in {0,1}^l of f1(g,x,y) * f2(x) * f3(y), f1's variables being g, then
\* x, then y in the MSB-first encoding.
C12_Phase1Claim ==
    (prover.claimed_sum_phase1 # None /\ IsBoolean(g)) =>
        LET l  == Len(g)
            at == [num_vars |-> 2 * l,
                   evaluations |->
                       [k \in 0 .. (Pow2(2 * l) - 1) |->
                            StoredAt(f1, FlatIndex(g, 0) * Pow2(2 * l) + k)]]
        IN  Get(prover.claimed_sum_phase1) =
                FSum(0 .. (Pow2(l) - 1),
                     [x \in 0 .. (Pow2(l) - 1) |->
                          FMul(f2.evaluations[x], SumOverY(at, f3, l, x))])

\* C13 (h_g index split): h_g(x) is the sum over y of f1_fixed_g(x,y) * f3(y)
\* for every x, with x the high-order l bits and y the low-order l bits of
\* f1_fixed_g's index.
C13_HgIndexSplit ==
    prover.h_g # None =>
        \A x \in 0 .. (Pow2(Len(g)) - 1) :
            Get(prover.h_g).evaluations[x] = SumOverY(Get(prover.f1_fixed_g), f3, Len(g), x)

\* C19 (phase consistency): for a Boolean challenge vector u,
\* claimed_sum_phase2 equals h_g(u) * f2(u), h_g being the table
\* initialize_phase_one computed.
C19_PhaseConsistency ==
    (prover.claimed_sum_phase2 # None /\ IsBoolean(prover.u)) =>
        Get(prover.claimed_sum_phase2) =
            FMul(Get(prover.h_g).evaluations[FlatIndex(prover.u, 0)],
                 f2.evaluations[FlatIndex(prover.u, 0)])
\* the sum of poly over {0,1}^v, the point of index n having the bits of n
HypercubeSum(poly) ==
    LET v == poly.num_vars
    IN  FSum(0 .. (Pow2(v) - 1),
             [n \in 0 .. (Pow2(v) - 1) |->
                 MultiEvaluate(poly, [k \in 1 .. v |-> BitAt(n, v - k)])])

\* C is the sum of g over {0,1}^v
ClaimIsTrue == engine.c_1 = HypercubeSum(engine.g)

\* C11: the generic engine agrees with brute force.  For every polynomial g
\* of v >= 1 variables, every claim C and every choice of challenges,
\* slow_verify(g, C) is true exactly when C is the sum of g over {0,1}^v;
\* verify(g, C) returns true only then, having drawn v challenges r with
\* g(r) equal to the last expected value, and aborts only when C is not
\* that sum: on a true claim no round check, degree check or final check
\* fails.
C11_EngineAgreesWithBruteForce ==
    /\ engine.pc = "verify" => (Get(engine.slow_result) <=> ClaimIsTrue)
    /\ engine.pc = "returned" =>
          /\ engine.result = Some(TRUE)
          /\ engine.slow_result = Some(TRUE)
          /\ ClaimIsTrue
          /\ Len(engine.r_vec) = engine.g.num_vars
          /\ engine.expected_c = Some(MultiEvaluate(engine.g, engine.r_vec))
    /\ engine.pc = "panic" =>
          /\ engine.slow_result = Some(FALSE)
          /\ ~ClaimIsTrue
    /\ engine.pc = "loop" =>
          /\ engine.slow_result = Some(TRUE)
          /\ UniDegree(engine.gi) <= max_degrees(engine.g)[engine.j]

\* verify has accepted a true, non-zero claim about a polynomial of two
\* variables with a term of degree 2, after drawing the challenge 2.
C11_Witness ==
    /\ engine.pc = "returned"
    /\ engine.result = Some(TRUE)
    /\ engine.g.num_vars = 2
    /\ \E t \in DOMAIN engine.g.terms : TermDegree(t) = 2
    /\ engine.c_1 # 0
    /\ engine.r_vec[1] = 2

\* C20 as stated: verify never returns false.  For every g and C its
\* outcomes are returning true or aborting on a failed assertion (round
\* check, degree check or final check): a claim that slow_verify answers with
\* false ends verify in a panic, with no value returned.
C20_RejectionIsAbort ==
    /\ engine.result \in {None, Some(TRUE)}
    /\ engine.pc = "returned" => engine.result = Some(TRUE)
    /\ engine.pc = "panic" =>
          /\ engine.result = None
          /\ engine.failed \in {"round", "degree", "final"}
    /\ (engine.slow_result = Some(FALSE) /\ engine.pc \notin {"slow_verify", "verify"}) =>
          /\ engine.pc = "panic"
          /\ engine.result = None

\* C20, amended: verify never returns false.  For every g and C its outcomes
\* are returning true or aborting, and a claim that slow_verify answers with
\* false ends verify in a panic with no value returned.  For g of at least
\* one variable the abort is a failed round check, degree check or final
\* check; for g of no variable verify aborts on every claim, true ones
\* included, by the overflow of v - 1, the round check or the out-of-bounds
\* lookup_degree[0].
C20_RejectionIsAbortOrPanic ==
    /\ engine.result \in {None, Some(TRUE)}
    /\ engine.pc = "returned" =>
          /\ engine.result = Some(TRUE)
          /\ engine.g.num_vars >= 1
    /\ engine.pc = "panic" =>
          /\ engine.result = None
          /\ IF engine.g.num_vars >= 1
             THEN engine.failed \in {"round", "degree", "final"}
             ELSE engine.failed \in {"overflow", "round", "index"}
    /\ (engine.slow_result = Some(FALSE) /\ engine.pc \notin {"slow_verify", "verify"}) =>
          /\ engine.pc = "panic"
          /\ engine.result = None
    /\ (engine.g.num_vars = 0 /\ engine.pc \notin {"slow_verify", "verify"}) =>
          engine.pc = "panic"

\* slow_verify has returned true on the claim 0 about the zero polynomial of
\* no variable, and verify has aborted on it at lookup_degree[0], no value
\* returned.
C20_Witness ==
    /\ engine.pc = "panic"
    /\ engine.failed = "index"
    /\ engine.g.num_vars = 0
    /\ engine.slow_result = Some(TRUE)
    /\ engine.result = None
    /\ ClaimIsTrue

====
